---------------------------- MODULE Spec2Model ----------------------------
(***************************************************************************)
(* A model of the GWMP message codec of python-lorawan (src/wan.py):       *)
(* GatewayMessage.decode / GatewayMessage.encode, and the payload entities *)
(* Stat, Rxpk and Txpk.                                                    *)
(*                                                                         *)
(* The module is Python 2 code (dict.keys() is indexed at wan.py:361, the  *)
(* result of struct.pack is concatenated to a str at wan.py:398 and the    *)
(* result of base64.b64encode is compared to the str '==' at wan.py:247),  *)
(* and it is modelled with the semantics of Python 2.                      *)
(*                                                                         *)
(* Python values are tagged records:                                       *)
(*   None                 [t |-> "None"]                                   *)
(*   bool                 [t |-> "bool",  b |-> TRUE]                      *)
(*   int                  [t |-> "int",   n |-> 5]                         *)
(*   float                [t |-> "float", h |-> 3]     (h halves: 1.5)     *)
(*   text (opaque)        [t |-> "str",   s |-> "LORA"]                    *)
(*   str handled bytewise [t |-> "bytes", c |-> <<89, 81>>]                *)
(*   list                 [t |-> "list",  items |-> <<...>>]               *)
(*   dict                 [t |-> "dict",  keys |-> <<...>>, val |-> f]     *)
(* where keys is the order in which dict.keys() yields the keys.           *)
(***************************************************************************)
EXTENDS Integers, Sequences, FiniteSets, TLC

VARIABLES
    data,      \* the datagram last handed to GatewayMessage.decode
    result,    \* what that call returned or raised
    txargs,    \* the arguments of the last Txpk(...) construction
    txpk,      \* the Txpk object
    json,      \* the text last returned by Txpk.encode
    msg,       \* the GatewayMessage object handed to encode
    msg0,      \* that object as it was constructed
    out,       \* what the last GatewayMessage.encode returned or raised
    nenc       \* number of encode calls on msg

vars == <<data, result, txargs, txpk, json, msg, msg0, out, nenc>>

---------------------------------------------------------------------------
(* GWMP identifiers *)
PUSH_DATA == 0
PUSH_ACK == 1
PULL_DATA == 2
PULL_RESP == 3
PULL_ACK == 4
TX_ACK == 5

(* Bounds of the model *)
MaxDataLen == 3       \* longest raw payload handed to Txpk(data=...)
MaxRxpk == 2          \* longest rxpk array in a PUSH_DATA body
MaxEncodes == 2       \* encode calls on one message

(* Widths of the wire format *)
ByteMax == 255        \* struct format 'B'
TokenMax == 65535     \* struct format 'H'

Byte == 0..ByteMax

---------------------------------------------------------------------------
(* Python values *)
None == [t |-> "None"]
PyBool(b) == [t |-> "bool", b |-> b]
PyInt(n) == [t |-> "int", n |-> n]
PyFloat(h) == [t |-> "float", h |-> h]
PyStr(s) == [t |-> "str", s |-> s]
PyBytes(c) == [t |-> "bytes", c |-> c]
PyList(items) == [t |-> "list", items |-> items]
PyDict(keys, val) == [t |-> "dict", keys |-> keys, val |-> val]

Range(s) == {s[i] : i \in 1..Len(s)}

(* s[-n:] and s[:-n] of a Python sequence, n > 0 *)
Last(s, n) == IF Len(s) <= n THEN s ELSE SubSeq(s, Len(s) - n + 1, Len(s))
DropLast(s, n) == IF Len(s) <= n THEN <<>> ELSE SubSeq(s, 1, Len(s) - n)

---------------------------------------------------------------------------
(* base64, over ASCII codes *)
PadChar == 61         \* '='

B64Char(i) ==
    IF i < 26 THEN 65 + i                  \* 'A'..'Z'
    ELSE IF i < 52 THEN 97 + (i - 26)      \* 'a'..'z'
    ELSE IF i < 62 THEN 48 + (i - 52)      \* '0'..'9'
    ELSE IF i = 62 THEN 43                 \* '+'
    ELSE 47                                \* '/'

B64Alphabet == {B64Char(i) : i \in 0..63}

B64Index(c) == CHOOSE i \in 0..63 : B64Char(i) = c

RECURSIVE b64encode(_)
b64encode(d) ==
    IF Len(d) = 0 THEN <<>>
    ELSE IF Len(d) = 1 THEN
        << B64Char(d[1] \div 4), B64Char((d[1] % 4) * 16), PadChar, PadChar >>
    ELSE IF Len(d) = 2 THEN
        << B64Char(d[1] \div 4),
           B64Char((d[1] % 4) * 16 + d[2] \div 16),
           B64Char((d[2] % 16) * 4),
           PadChar >>
    ELSE
        << B64Char(d[1] \div 4),
           B64Char((d[1] % 4) * 16 + d[2] \div 16),
           B64Char((d[2] % 16) * 4 + d[3] \div 64),
           B64Char(d[3] % 64) >> \o b64encode(SubSeq(d, 4, Len(d)))

(* The texts base64.b64decode accepts without raising: whole quanta of     *)
(* four characters of the alphabet, the last one padded with one or two    *)
(* '='.  (Python 2 raises TypeError, "Incorrect padding", on the others    *)
(* built from these characters.)                                           *)
B64Valid(s) ==
    /\ Len(s) % 4 = 0
    /\ \A i \in 1..Len(s) :
         \/ s[i] \in B64Alphabet
         \/ /\ s[i] = PadChar
            /\ i >= Len(s) - 1
            /\ i >= 3
            /\ (i = Len(s) - 1 => s[Len(s)] = PadChar)

RECURSIVE b64decode(_)
b64decode(s) ==
    IF Len(s) = 0 THEN <<>>
    ELSE LET a == B64Index(s[1])
             b == B64Index(s[2])
             rest == SubSeq(s, 5, Len(s))
         IN IF s[3] = PadChar THEN
                << a * 4 + b \div 16 >>
            ELSE IF s[4] = PadChar THEN
                << a * 4 + b \div 16,
                   (b % 16) * 16 + B64Index(s[3]) \div 4 >>
            ELSE
                << a * 4 + b \div 16,
                   (b % 16) * 16 + B64Index(s[3]) \div 4,
                   (B64Index(s[3]) % 4) * 64 + B64Index(s[4]) >>
                \o b64decode(rest)

---------------------------------------------------------------------------
(* Txpk *)
TxpkKeys ==
    << "imme", "tmst", "time", "freq", "rfch", "powe", "modu",
       "datr", "codr", "ipol", "size", "data", "ncrc" >>

(* A padding removal that takes off one '=' at most *)
StripPaddingOnce(s) ==
    IF Last(s, 1) = <<PadChar>> THEN DropLast(s, 1) ELSE s

(* Remove padding, wan.py:247-250 *)
StripPadding(s) ==
    IF Last(s, 2) = <<PadChar, PadChar>> THEN DropLast(s, 2)
    ELSE IF Last(s, 1) = <<PadChar>> THEN DropLast(s, 1)
    ELSE s

(* Txpk.__init__: the attributes of the object built from arguments a *)
TxpkInit(a) ==
    IF a.data # None
    THEN [a EXCEPT !.size = PyInt(Len(a.data.c)),
                   !.data = PyBytes(StripPadding(b64encode(a.data.c)))]
    ELSE [a EXCEPT !.size = PyInt(0)]

(* An encode loop that tests the truth of val instead of "is not None" *)
TxpkDictTruthy(self) ==
    LET emitted ==
            SelectSeq(TxpkKeys,
                      LAMBDA key : self[key] \notin
                          {None, PyBool(FALSE), PyInt(0), PyBytes(<<>>)})
    IN PyDict(emitted, [key \in Range(emitted) |-> self[key]])

(* jd['txpk'], the OrderedDict filled by the loop of Txpk.encode *)
TxpkDict(self) ==
    LET emitted == SelectSeq(TxpkKeys, LAMBDA key : self[key] # None)
    IN PyDict(emitted, [key \in Range(emitted) |-> self[key]])

(* The text json.dumps returns for a value *)
JsonText(v) == [k |-> "json", v |-> v]
EmptyText == [k |-> "empty"]
GarbageText == [k |-> "garbage"]

(* Txpk.encode *)
TxpkEncode(self) ==
    JsonText(PyDict(<<"txpk">>, [key \in {"txpk"} |-> TxpkDict(self)]))

---------------------------------------------------------------------------
(* Strings on the wire.  A Python 2 str that is (part of) a datagram is    *)
(* its leading octets followed by one text: bytes are the octets of the    *)
(* binary header (and any octets that are not JSON), text is the JSON      *)
(* document, or garbage, or nothing, that follows them.                    *)
WireStr(bytes, text) == [bytes |-> bytes, text |-> text]
EmptyStr == WireStr(<<>>, EmptyText)

(* The length of a text, as far as the codec looks at it: it compares      *)
(* len(data) with 4 and 12 only, and every datagram of the model that      *)
(* carries a text carries it after 12 octets or after a header the codec   *)
(* rejects before it looks at the length again.                            *)
TextLen(text) == IF text = EmptyText THEN 0 ELSE 1

DataLen(d) == Len(d.bytes) + TextLen(d.text)

(* s[a:b] of the octets of a Python sequence, 0 <= a <= b *)
Slice(s, a, b) ==
    IF a >= Len(s) THEN <<>>
    ELSE SubSeq(s, a + 1, IF b < Len(s) THEN b ELSE Len(s))

(* data[n:] of a wire string whose first n octets are bytes *)
From(d, n) == WireStr(Slice(d.bytes, n, Len(d.bytes)), d.text)

(* struct.pack / struct.unpack, little-endian.  A 64-bit integer is kept   *)
(* as its four 16-bit words, least significant first.                      *)
PyLong(w) == [t |-> "long", w |-> w]

PackBHBBigEndian(version, token, identifier) ==
    << version, token \div (ByteMax + 1), token % (ByteMax + 1), identifier >>

PackBHB(version, token, identifier) ==
    << version, token % (ByteMax + 1), token \div (ByteMax + 1), identifier >>

PackQ(w) ==
    << w[1] % (ByteMax + 1), w[1] \div (ByteMax + 1),
       w[2] % (ByteMax + 1), w[2] \div (ByteMax + 1),
       w[3] % (ByteMax + 1), w[3] \div (ByteMax + 1),
       w[4] % (ByteMax + 1), w[4] \div (ByteMax + 1) >>

UnpackBHB(b) ==
    [version |-> b[1], token |-> b[2] + (ByteMax + 1) * b[3], identifier |-> b[4]]

UnpackQ(b) ==
    << b[1] + (ByteMax + 1) * b[2], b[3] + (ByteMax + 1) * b[4],
       b[5] + (ByteMax + 1) * b[6], b[7] + (ByteMax + 1) * b[8] >>

---------------------------------------------------------------------------
(* Outcomes of a call: a value, or the exception it raised *)
Return(val) == [exc |-> "none", val |-> val]
Raise(exc) == [exc |-> exc]

(* int(v).  The texts of the model are not numerals. *)
IntOf(v) ==
    CASE v.t = "int" -> Return(v)
      [] v.t = "bool" -> Return(PyInt(IF v.b THEN 1 ELSE 0))
      [] v.t = "float" ->
            Return(PyInt(IF v.h >= 0 THEN v.h \div 2 ELSE -((-v.h) \div 2)))
      [] v.t \in {"str", "bytes"} -> Raise("ValueError")
      [] OTHER -> Raise("TypeError")

(* float(v) *)
FloatOf(v) ==
    CASE v.t = "int" -> Return(PyFloat(2 * v.n))
      [] v.t = "bool" -> Return(PyFloat(IF v.b THEN 2 ELSE 0))
      [] v.t = "float" -> Return(v)
      [] v.t \in {"str", "bytes"} -> Raise("ValueError")
      [] OTHER -> Raise("TypeError")

(* no conversion: the value of the key is stored as it is *)
AsIs(v) == Return(v)

(* base64.b64decode(v).  The base64 texts of the model are the strings     *)
(* handled bytewise.                                                       *)
Base64Of(v) ==
    IF v.t = "bytes" /\ B64Valid(v.c) THEN Return(PyBytes(b64decode(v.c)))
    ELSE Raise("TypeError")

(* conv(v) for the conversion named conv *)
Convert(conv, v) ==
    CASE conv = "int" -> IntOf(v)
      [] conv = "float" -> FloatOf(v)
      [] conv = "b64decode" -> Base64Of(v)
      [] conv = "" -> AsIs(v)

(* conv(d[key]) *)
Item(d, key, conv) ==
    IF key \in Range(d.keys) THEN Convert(conv, d.val[key]) ELSE Raise("KeyError")

(* conv(d[key]) if key in d.keys() else None *)
ItemOrNone(d, key, conv) ==
    IF key \in Range(d.keys) THEN Convert(conv, d.val[key]) ELSE Return(None)

(* The exception of the first call of a sequence of calls that raised *)
FirstRaised(calls) ==
    LET i == CHOOSE i \in 1..Len(calls) :
                /\ calls[i].exc # "none"
                /\ \A j \in 1..(i - 1) : calls[j].exc = "none"
    IN Raise(calls[i].exc)

AllReturned(calls) == \A i \in 1..Len(calls) : calls[i].exc = "none"

---------------------------------------------------------------------------
(* Stat *)
StatKeys ==
    << "time", "lati", "long", "alti", "rxnb",
       "rxok", "rwfw", "ackr", "dwnb", "txnb" >>

(* Stat.decode(stp) *)
StatDecode(stp) ==
    LET calls == << ItemOrNone(stp, "time", ""),
                    ItemOrNone(stp, "lati", "float"),
                    ItemOrNone(stp, "long", "float"),
                    ItemOrNone(stp, "alti", "int"),
                    ItemOrNone(stp, "rxnb", "int"),
                    ItemOrNone(stp, "rxok", "int"),
                    ItemOrNone(stp, "rwfw", "int"),
                    ItemOrNone(stp, "ackr", "int"),
                    ItemOrNone(stp, "dwnb", "int"),
                    ItemOrNone(stp, "txnb", "int") >>
    IN IF AllReturned(calls)
       THEN Return([key \in Range(StatKeys) |->
                       calls[CHOOSE i \in 1..Len(StatKeys) : StatKeys[i] = key].val])
       ELSE FirstRaised(calls)

---------------------------------------------------------------------------
(* Rxpk *)
mandatory ==
    << "tmst", "freq", "chan", "rfch", "stat", "modu",
       "datr", "codr", "rssi", "lsnr", "data" >>

RxpkKeys == mandatory \o << "time", "size" >>

(* all(rkeys for k in mandatory): every item is the list rkeys itself,     *)
(* which is true when it is not empty                                      *)
MandatoryCheck(rkeys) == \A i \in 1..Len(mandatory) : rkeys # <<>>

(* Rxpk.decode(rxp), rxp a dict *)
RxpkDecode(rxp) ==
    IF ~MandatoryCheck(rxp.keys) THEN Return(None)
    ELSE LET calls == << Item(rxp, "tmst", "int"),
                         Item(rxp, "freq", "float"),
                         Item(rxp, "chan", "int"),
                         Item(rxp, "rfch", "int"),
                         Item(rxp, "stat", "int"),
                         Item(rxp, "modu", ""),
                         Item(rxp, "datr", ""),
                         Item(rxp, "codr", ""),
                         Item(rxp, "rssi", "int"),
                         Item(rxp, "lsnr", "float"),
                         Item(rxp, "data", "b64decode"),
                         ItemOrNone(rxp, "time", ""),
                         ItemOrNone(rxp, "size", "int") >>
         IN IF AllReturned(calls)
            THEN Return([key \in Range(RxpkKeys) |->
                            calls[CHOOSE i \in 1..Len(RxpkKeys) : RxpkKeys[i] = key].val])
            ELSE FirstRaised(calls)

---------------------------------------------------------------------------
(* GatewayMessage *)

(* GatewayMessage.__init__ *)
GatewayMessage(version, token, identifier, gatewayEUI, txpkArg, remote, ptype) ==
    [version |-> version,
     token |-> token,
     id |-> identifier,
     gatewayEUI |-> gatewayEUI,
     payload |-> EmptyStr,
     ptype |-> ptype,
     remote |-> remote,
     rxpk |-> None,
     txpk |-> txpkArg,
     stat |-> None]

(* A version test that lets version 1 carry TX_ACK as version 2 does *)
UnsupportedSameForBoth(m) ==
    \/ m.version \notin {PyInt(1), PyInt(2)}
    \/ m.id \notin {PyInt(PUSH_DATA), PyInt(PULL_DATA), PyInt(TX_ACK)}

(* Test versions (1 or 2) and supported message types, wan.py:336-339 *)
Unsupported(m) ==
    \/ m.version \notin {PyInt(1), PyInt(2)}
    \/ /\ m.version = PyInt(1)
       /\ m.id \notin {PyInt(PUSH_DATA), PyInt(PULL_DATA)}
    \/ /\ m.version = PyInt(2)
       /\ m.id \notin {PyInt(PUSH_DATA), PyInt(PULL_DATA), PyInt(TX_ACK)}

(* A length test that lets a datagram of 11 octets through *)
TooShortForIdentityOffByOne(d) == DataLen(d) < 11

(* len(data) < 12 *)
TooShortForIdentity(d) == DataLen(d) < 12

(* struct.unpack('<Q', data[4:12])[0] *)
ReadIdentity(d) ==
    LET b == Slice(d.bytes, 4, 12)
    IN IF Len(b) = 8 THEN Return(PyLong(UnpackQ(b))) ELSE Raise("struct.error")

(* json.loads(payload) *)
JsonLoads(payload) ==
    IF payload.bytes = <<>> /\ payload.text.k = "json"
    THEN Return(payload.text.v)
    ELSE Raise("ValueError")

(* The loop over jdata['rxpk'], wan.py:364-370 *)
DecodeRxpkList(m, jdata) ==
    LET v == jdata.val["rxpk"]
    IN IF v.t # "list" THEN Raise("TypeError")
       ELSE LET calls == [i \in 1..Len(v.items) |->
                             IF v.items[i].t = "dict"
                             THEN RxpkDecode(v.items[i])
                             ELSE Raise("AttributeError")]
            IN IF ~AllReturned(calls) THEN FirstRaised(calls)
               ELSE LET kept == SelectSeq(calls, LAMBDA c : c.val # None)
                        rxpk == [i \in 1..Len(kept) |-> kept[i].val]
                    IN IF rxpk = <<>> THEN Raise("DecodeError")
                       ELSE Return([m EXCEPT !.rxpk = PyList(rxpk)])

(* Decode PUSH_DATA payload, wan.py:356-378 *)
DecodePayload(m) ==
    LET loaded == JsonLoads(m.payload)
    IN IF loaded.exc # "none" THEN Raise("DecodeError")
       ELSE LET jdata == loaded.val
            IN IF jdata.t # "dict" THEN Raise("AttributeError")
               ELSE IF jdata.keys = <<>> THEN Raise("IndexError")
               ELSE LET m1 == [m EXCEPT !.ptype = PyStr(jdata.keys[1])]
                    IN IF m1.ptype = PyStr("rxpk") THEN DecodeRxpkList(m1, jdata)
                       ELSE IF m1.ptype = PyStr("stat") THEN
                           LET s == StatDecode(jdata)
                           IN IF s.exc # "none" THEN Raise(s.exc)
                              ELSE IF s.val = None THEN Raise("DecodeError")
                              ELSE Return([m1 EXCEPT !.stat = s.val])
                       ELSE Raise("DecodeError")

(* GatewayMessage.decode(data, remote) *)
GatewayDecode(d, remote) ==
    IF DataLen(d) < 4 THEN Raise("DecodeError")
    ELSE LET h == UnpackBHB(Slice(d.bytes, 0, 4))
             m == [GatewayMessage(PyInt(h.version), PyInt(h.token),
                                  PyInt(h.identifier), None, None, None, None)
                      EXCEPT !.remote = remote]
             eui == ReadIdentity(d)
         IN IF Unsupported(m) THEN Raise("UnsupportedMethod")
            ELSE IF m.id = PyInt(PUSH_DATA) THEN
                IF TooShortForIdentity(d) THEN Raise("DecodeError")
                ELSE IF eui.exc # "none" THEN Raise(eui.exc)
                ELSE DecodePayload([m EXCEPT !.gatewayEUI = eui.val,
                                             !.payload = From(d, 12)])
            ELSE IF m.id = PyInt(PULL_DATA) THEN
                IF TooShortForIdentity(d) THEN Raise("DecodeError")
                ELSE IF eui.exc # "none" THEN Raise(eui.exc)
                ELSE Return([m EXCEPT !.gatewayEUI = eui.val])
            ELSE IF m.id = PyInt(TX_ACK) THEN
                Return([m EXCEPT !.payload = From(d, 4)])
            ELSE Return(m)

(* An encoder that sends the stored token whatever the version *)
PullRespTokenKept(self) == self.token

(* The token of a PULL_RESP: if self.version == 1: self.token = 0 *)
PullRespToken(self) ==
    IF self.version = PyInt(1) THEN PyInt(0) ELSE self.token

(* GatewayMessage.encode(self): what it returns or raises, and self after  *)
(* the call                                                                *)
GatewayEncode(self) ==
    IF self.id = PyInt(PUSH_ACK) THEN
        [exc |-> "none",
         val |-> WireStr(PackBHB(self.version.n, self.token.n, self.id.n), EmptyText),
         self |-> self]
    ELSE IF self.id = PyInt(PULL_ACK) THEN
        IF self.gatewayEUI = None
        THEN [exc |-> "struct.error", self |-> self]
        ELSE [exc |-> "none",
              val |-> WireStr(PackBHB(self.version.n, self.token.n, self.id.n)
                                 \o PackQ(self.gatewayEUI.w), EmptyText),
              self |-> self]
    ELSE IF self.id = PyInt(PULL_RESP) THEN
        LET s1 == [self EXCEPT !.token = PullRespToken(self)]
        IN IF s1.txpk = None
           THEN [exc |-> "AttributeError", self |-> s1]
           ELSE LET s2 == [s1 EXCEPT !.payload = WireStr(<<>>, TxpkEncode(s1.txpk))]
                IN [exc |-> "none",
                    val |-> WireStr(PackBHB(s2.version.n, s2.token.n, s2.id.n)
                                       \o s2.payload.bytes, s2.payload.text),
                    self |-> s2]
    ELSE [exc |-> "none", val |-> EmptyStr, self |-> self]

---------------------------------------------------------------------------
(* The Txpk objects the model constructs and encodes *)
NoResult == [exc |-> "no call"]

SampleValue ==
    [key \in Range(TxpkKeys) |->
        CASE key = "imme" -> PyBool(FALSE)
          [] key = "tmst" -> PyInt(1000)
          [] key = "time" -> PyStr("2021-01-01T00:00:00Z")
          [] key = "freq" -> PyFloat(1737)
          [] key = "rfch" -> PyInt(0)
          [] key = "powe" -> PyInt(14)
          [] key = "modu" -> PyStr("LORA")
          [] key = "datr" -> PyStr("SF7BW125")
          [] key = "codr" -> PyStr("4/5")
          [] key = "ipol" -> PyBool(TRUE)
          [] key = "size" -> PyInt(7)
          [] key = "ncrc" -> PyBool(FALSE)
          [] key = "data" -> None]

(* The arguments of Txpk(...): the keywords in given are passed, with      *)
(* data=d; every other parameter keeps its default, None.                  *)
TxpkArgs(given, d) ==
    [key \in Range(TxpkKeys) |->
        IF key = "data" THEN d
        ELSE IF key \in given THEN SampleValue[key]
        ELSE None]

DataBytes == {0, 77, 251, 255}

RECURSIVE SeqsUpTo(_, _)
SeqsUpTo(S, n) ==
    IF n = 0 THEN {<<>>}
    ELSE LET shorter == SeqsUpTo(S, n - 1)
         IN shorter \cup {Append(s, x) : s \in shorter, x \in S}

TxpkInputs ==
    {TxpkArgs(given, d) :
        given \in SUBSET (Range(TxpkKeys) \ {"data"}),
        d \in {None, PyBytes(<<77>>)}}
    \cup
    {TxpkArgs(given, PyBytes(d)) :
        given \in {{}, {"size"}, Range(TxpkKeys)},
        d \in SeqsUpTo(DataBytes, MaxDataLen)}

NewTxpk ==
    /\ txargs = None
    /\ \E a \in TxpkInputs :
          /\ txargs' = a
          /\ txpk' = TxpkInit(a)
    /\ json' = EmptyText
    /\ UNCHANGED <<data, result, msg, msg0, out, nenc>>

EncodeTxpk ==
    /\ txpk # None
    /\ json' = TxpkEncode(txpk)
    /\ UNCHANGED <<data, result, txargs, txpk, msg, msg0, out, nenc>>

NextTxpk == NewTxpk \/ EncodeTxpk

---------------------------------------------------------------------------
(* The datagrams the model hands to GatewayMessage.decode *)
Remote == [t |-> "tuple", host |-> "192.0.2.1", port |-> 1700]

Filler(n) == [i \in 1..n |-> i]

SubsetSeq(keys, S) == SelectSeq(keys, LAMBDA key : key \in S)

MkDict(keys, sample) == PyDict(keys, [key \in Range(keys) |-> sample[key]])

SampleTokens == {0, 4660, 65535}

(* Every version octet and every identifier octet, in a bare header *)
HeaderSweep ==
    {WireStr(PackBHB(v, 4660, i), EmptyText) : v \in Byte, i \in Byte}

StatSample ==
    [key \in Range(StatKeys) |->
        CASE key = "time" -> PyStr("2021-01-01T00:00:00Z")
          [] key = "lati" -> PyFloat(93)
          [] key = "long" -> PyInt(4)
          [] key = "alti" -> PyInt(100)
          [] key = "rxnb" -> PyFloat(5)
          [] key = "rxok" -> PyInt(2)
          [] key = "rwfw" -> PyInt(2)
          [] key = "ackr" -> PyInt(100)
          [] key = "dwnb" -> PyInt(0)
          [] key = "txnb" -> PyInt(0)]

StatObjects == {MkDict(SubsetSeq(StatKeys, S), StatSample) : S \in SUBSET Range(StatKeys)}

RxpkSample ==
    [key \in Range(RxpkKeys) |->
        CASE key = "tmst" -> PyInt(1000)
          [] key = "freq" -> PyInt(868)
          [] key = "chan" -> PyInt(2)
          [] key = "rfch" -> PyInt(0)
          [] key = "stat" -> PyInt(1)
          [] key = "modu" -> PyStr("LORA")
          [] key = "datr" -> PyStr("SF7BW125")
          [] key = "codr" -> PyStr("4/5")
          [] key = "rssi" -> PyFloat(-71)
          [] key = "lsnr" -> PyFloat(-5)
          [] key = "data" -> PyBytes(b64encode(<<77, 251>>))
          [] key = "time" -> PyStr("2021-01-01T00:00:00Z")
          [] key = "size" -> PyInt(2)]

RxpkSampleLater == [RxpkSample EXCEPT !["tmst"] = PyInt(2000)]

RxpkSampleBadTmst == [RxpkSample EXCEPT !["tmst"] = PyStr("soon")]

RxpkSampleBadData == [RxpkSample EXCEPT !["data"] = PyBytes(<<B64Char(0)>>)]

RxpkElements ==
    {MkDict(SubsetSeq(RxpkKeys, Range(mandatory) \ {key}), RxpkSample) :
        key \in Range(mandatory)}
    \cup
    {MkDict(mandatory, RxpkSample),
     MkDict(mandatory, RxpkSampleLater),
     MkDict(RxpkKeys, RxpkSample),
     MkDict(<<"time">>, RxpkSample),
     MkDict(<<>>, RxpkSample),
     MkDict(mandatory, RxpkSampleBadTmst),
     MkDict(mandatory, RxpkSampleBadData),
     PyInt(1)}

OneKey(key, v) == PyDict(<<key>>, (key :> v))

TwoKeys(k1, v1, k2, v2) == PyDict(<<k1, k2>>, (k1 :> v1) @@ (k2 :> v2))

PushBodies ==
    {EmptyText, GarbageText}
    \cup {JsonText(v) : v \in {None, PyInt(1), PyStr("stat"), PyList(<<>>),
                               PyDict(<<>>, <<>>)}}
    \cup {JsonText(OneKey("stat", S)) : S \in StatObjects}
    \cup {JsonText(OneKey("rxpk", PyList(items))) :
             items \in SeqsUpTo(RxpkElements, MaxRxpk)}
    \cup {JsonText(OneKey("rxpk", PyInt(1))),
          JsonText(OneKey("txpk", PyDict(<<>>, <<>>))),
          JsonText(OneKey("time", PyStr("2021-01-01T00:00:00Z"))),
          JsonText(TwoKeys("stat", PyDict(<<>>, <<>>),
                           "rxpk", PyList(<<MkDict(mandatory, RxpkSample)>>))),
          JsonText(TwoKeys("rxpk", PyList(<<MkDict(mandatory, RxpkSample)>>),
                           "stat", PyDict(<<>>, <<>>))),
          JsonText(TwoKeys("stat", PyDict(<<>>, <<>>),
                           "time", PyStr("2021-01-01T00:00:00Z"))),
          JsonText(TwoKeys("stat", PyDict(<<>>, <<>>), "alti", PyStr("high"))),
          JsonText(TwoKeys("time", PyStr("2021-01-01T00:00:00Z"),
                           "stat", PyDict(<<>>, <<>>)))}

DecodeInputs ==
    HeaderSweep
    \cup
    {WireStr(s, EmptyText) : s \in SeqsUpTo({0, 1, 2, 255}, 3)}
    \cup
    {WireStr(PackBHB(v, token, i) \o Filler(n), text) :
        v \in {0, 1, 2, 3, 255}, token \in SampleTokens,
        i \in (PUSH_DATA..(TX_ACK + 1)) \cup {255},
        n \in 0..9, text \in {EmptyText}}
    \cup
    {WireStr(PackBHB(v, token, i) \o Filler(n), text) :
        v \in {0, 1, 2, 3, 255}, token \in SampleTokens,
        i \in (PUSH_DATA..(TX_ACK + 1)) \cup {255},
        n \in 8..9, text \in {GarbageText, JsonText(OneKey("stat", PyDict(<<>>, <<>>)))}}
    \cup
    {WireStr(PackBHB(v, 4660, PUSH_DATA) \o Filler(8), text) :
        v \in {1, 2}, text \in PushBodies}

Decode ==
    /\ result = NoResult
    /\ \E d \in DecodeInputs :
          /\ data' = d
          /\ result' = GatewayDecode(d, Remote)
    /\ UNCHANGED <<txargs, txpk, json, msg, msg0, out, nenc>>

Init ==
    /\ data = EmptyStr
    /\ result = NoResult
    /\ txargs = None
    /\ txpk = None
    /\ json = EmptyText
    /\ msg = None
    /\ msg0 = None
    /\ out = NoResult
    /\ nenc = 0

Next == Decode

Spec == Init /\ [][Next]_vars

SpecTxpk == Init /\ [][NextTxpk]_vars

---------------------------------------------------------------------------
(* The messages the model constructs and encodes *)
EncodeTokens ==
    {lo + (ByteMax + 1) * hi : lo \in {0, 1, 18, 52, ByteMax},
                               hi \in {0, 1, 18, 52, ByteMax}}

EncodeTxpks ==
    {None,
     TxpkInit(TxpkArgs({}, None)),
     TxpkInit(TxpkArgs({"freq", "modu", "ipol"}, PyBytes(<<77, 251>>)))}

NewMessage ==
    /\ msg = None
    /\ \/ \E version \in {1, 2, 3}, token \in EncodeTokens,
             identifier \in {None} \cup {PyInt(i) : i \in PUSH_DATA..TX_ACK},
             gatewayEUI \in {None, PyLong(<<513, 1027, 1541, 65535>>)},
             tx \in EncodeTxpks :
             msg' = GatewayMessage(PyInt(version), PyInt(token), identifier,
                                   gatewayEUI, tx, None, None)
       \/ \E token \in 0..TokenMax :
             msg' = GatewayMessage(PyInt(1), PyInt(token), PyInt(PULL_RESP),
                                   None, TxpkInit(TxpkArgs({}, None)), None, None)
    /\ msg0' = msg'
    /\ UNCHANGED <<data, result, txargs, txpk, json, out, nenc>>

Encode ==
    /\ msg # None
    /\ nenc < MaxEncodes
    /\ LET r == GatewayEncode(msg)
       IN /\ msg' = r.self
          /\ out' = IF r.exc = "none" THEN Return(r.val) ELSE Raise(r.exc)
    /\ nenc' = nenc + 1
    /\ UNCHANGED <<data, result, txargs, txpk, json, msg0>>

(* The datagram encode returned is handed to decode *)
DecodeEncoded ==
    /\ out.exc = "none"
    /\ result = NoResult
    /\ data' = out.val
    /\ result' = GatewayDecode(out.val, Remote)
    /\ UNCHANGED <<txargs, txpk, json, msg, msg0, out, nenc>>

NextEncode == NewMessage \/ Encode \/ DecodeEncoded

SpecEncode == Init /\ [][NextEncode]_vars

---------------------------------------------------------------------------
(* Properties of Txpk *)

(* The '=' characters base64 appends to the encoding of n bytes *)
PaddingFor(n) == CASE n % 3 = 0 -> 0 [] n % 3 = 1 -> 2 [] n % 3 = 2 -> 1

Pads(n) == [i \in 1..n |-> PadChar]

(* C7: a Txpk constructed with data=d has size = len(d) and a data text    *)
(* without '=' that is the base64 encoding of d less its padding (0, 2 or  *)
(* 1 characters for len(d) mod 3 = 0, 1, 2): with the padding re-added it  *)
(* decodes back to d.  Without data, size is 0.                            *)
TxpkDataStripped ==
    txpk # None =>
        IF txargs["data"] # None
        THEN LET d == txargs["data"].c
                 text == txpk["data"].c
                 padded == text \o Pads(PaddingFor(Len(d)))
             IN /\ txpk["size"] = PyInt(Len(d))
                /\ PadChar \notin Range(text)
                /\ Len(padded) = 4 * ((Len(d) + 2) \div 3)
                /\ B64Valid(padded)
                /\ b64decode(padded) = d
        ELSE txpk["size"] = PyInt(0)

(* C7 happens: a two-character text made from one byte of data *)
TxpkDataStrippedWitness ==
    /\ txpk # None
    /\ txargs["data"] # None
    /\ Len(txargs["data"].c) = 1
    /\ Len(txpk["data"].c) = 2
    /\ txpk["size"] = PyInt(1)

(* The field order the gateways are promised *)
FieldOrder ==
    << "imme", "tmst", "time", "freq", "rfch", "powe", "modu",
       "datr", "codr", "ipol", "size", "data", "ncrc" >>

PosIn(seq, x) == CHOOSE i \in 1..Len(seq) : seq[i] = x

(* C9: the text of Txpk.encode is an object with the single key txpk whose *)
(* members are exactly the non-null fields of the Txpk, each once, with    *)
(* their values, in the relative order of FieldOrder.                      *)
TxpkEncodeNonNullInOrder ==
    json # EmptyText =>
        /\ json.k = "json"
        /\ json.v.t = "dict"
        /\ json.v.keys = <<"txpk">>
        /\ LET d == json.v.val["txpk"]
           IN /\ d.t = "dict"
              /\ \A key \in Range(FieldOrder) :
                    (key \in Range(d.keys)) <=> (txpk[key] # None)
              /\ Range(d.keys) \subseteq Range(FieldOrder)
              /\ \A i, j \in 1..Len(d.keys) :
                    i < j => PosIn(FieldOrder, d.keys[i]) < PosIn(FieldOrder, d.keys[j])
              /\ DOMAIN d.val = Range(d.keys)
              /\ \A key \in Range(d.keys) : d.val[key] = txpk[key]

(* C9 happens: a Txpk with null and non-null fields, among them a false    *)
(* flag, has been encoded                                                  *)
TxpkEncodeNonNullInOrderWitness ==
    /\ json # EmptyText
    /\ txpk["ncrc"] = PyBool(FALSE)
    /\ txpk["tmst"] = None
    /\ txpk["data"] # None
    /\ json.v.val["txpk"].keys = <<"size", "data", "ncrc">>

---------------------------------------------------------------------------
(* Properties of GatewayMessage.decode *)

(* The table of section 4.1: the identifiers each version may carry *)
LegalPair(version, identifier) ==
    \/ version = 1 /\ identifier \in {0, 2}
    \/ version = 2 /\ identifier \in {0, 2, 5}

(* A PUSH_DATA datagram with a legal version and at least 12 bytes *)
IsPushData(d) ==
    /\ Len(d.bytes) >= 12
    /\ d.bytes[1] \in {1, 2}
    /\ d.bytes[4] = 0

(* Its body is the JSON object {key: ...} *)
BodyHasOnly(d, key) ==
    /\ Len(d.bytes) = 12
    /\ d.text.k = "json"
    /\ d.text.v.t = "dict"
    /\ d.text.v.keys = <<key>>

(* The value the specification asks of a stat key *)
Coerced(key, v) ==
    IF key = "time" THEN v
    ELSE IF key \in {"lati", "long"} THEN FloatOf(v).val
    ELSE IntOf(v).val

(* C1: decoding a PUSH_DATA whose body is {"stat": S} returns a message    *)
(* whose stat has, for each of the ten keys, the coerced S[key] when S has *)
(* the key and None when it has not.                                       *)
StatFieldsFromBody ==
    (/\ result # NoResult
     /\ IsPushData(data)
     /\ BodyHasOnly(data, "stat")
     /\ data.text.v.val["stat"].t = "dict")
    => /\ result.exc = "none"
       /\ LET S == data.text.v.val["stat"]
          IN \A key \in Range(StatKeys) :
                result.val.stat[key] =
                    IF key \in Range(S.keys) THEN Coerced(key, S.val[key]) ELSE None

(* An rxpk element whose fields all have values of the right types *)
WellTyped(e) ==
    /\ e.t = "dict"
    /\ \A key \in Range(e.keys) :
          /\ key \in Range(RxpkKeys)
          /\ e.val[key] \in {RxpkSample[key], RxpkSampleLater[key]}

HasMandatory(e) == Range(mandatory) \subseteq Range(e.keys)

(* C2: decoding a PUSH_DATA whose body is {"rxpk": [e1..en]} leaves out    *)
(* the elements that miss a mandatory field, returns the others decoded in *)
(* order, and fails with DecodeError exactly when none is left.            *)
RxpkMissingFieldOmitted ==
    (/\ result # NoResult
     /\ IsPushData(data)
     /\ BodyHasOnly(data, "rxpk")
     /\ data.text.v.val["rxpk"].t = "list"
     /\ \A i \in 1..Len(data.text.v.val["rxpk"].items) :
           WellTyped(data.text.v.val["rxpk"].items[i]))
    => LET kept == SelectSeq(data.text.v.val["rxpk"].items, HasMandatory)
       IN IF kept = <<>>
          THEN result.exc = "DecodeError"
          ELSE /\ result.exc = "none"
               /\ result.val.rxpk.t = "list"
               /\ Len(result.val.rxpk.items) = Len(kept)
               /\ \A i \in 1..Len(kept) :
                     /\ result.val.rxpk.items[i]["tmst"] = kept[i].val["tmst"]
                     /\ result.val.rxpk.items[i]["modu"] = kept[i].val["modu"]

(* C3: on an input of at least 4 bytes, decode fails with                  *)
(* UnsupportedMethod if and only if (version, identifier) is outside the   *)
(* legal table, whatever follows the header.                               *)
UnsupportedIffIllegalPair ==
    (result # NoResult /\ Len(data.bytes) >= 4)
    => ((result.exc = "UnsupportedMethod")
            <=> ~LegalPair(data.bytes[1], data.bytes[4]))

(* C3 happens: a version 1 TX_ACK followed by a gateway identity and a     *)
(* JSON body is refused                                                    *)
UnsupportedIffIllegalPairWitness ==
    /\ result.exc = "UnsupportedMethod"
    /\ data.bytes[1] = 1
    /\ data.bytes[4] = 5
    /\ Len(data.bytes) = 12
    /\ data.text # EmptyText

(* C5: decode fails with DecodeError, and returns no message, on every     *)
(* input of fewer than 4 bytes and on every PUSH_DATA or PULL_DATA of      *)
(* version 1 or 2 of 4 to 11 bytes.                                        *)
ShortInputDecodeError ==
    (/\ result # NoResult
     /\ data.text = EmptyText
     /\ \/ Len(data.bytes) < 4
        \/ /\ Len(data.bytes) \in 4..11
           /\ data.bytes[1] \in {1, 2}
           /\ data.bytes[4] \in {0, 2})
    => result = [exc |-> "DecodeError"]

(* C5 happens: a version 2 PULL_DATA of 11 bytes has been refused *)
ShortInputDecodeErrorWitness ==
    /\ result = [exc |-> "DecodeError"]
    /\ data.text = EmptyText
    /\ Len(data.bytes) = 11
    /\ data.bytes[1] = 2
    /\ data.bytes[4] = 2

(* The body is a JSON object with exactly one key, rxpk or stat *)
BodyIsOneKnownKey(d) ==
    /\ Len(d.bytes) = 12
    /\ d.text.k = "json"
    /\ d.text.v.t = "dict"
    /\ Len(d.text.v.keys) = 1
    /\ d.text.v.keys[1] \in {"rxpk", "stat"}

(* C6: decoding a PUSH_DATA whose body is not a JSON object with exactly   *)
(* one key, rxpk or stat, fails with DecodeError and nothing else.         *)
OtherBodyDecodeError ==
    (/\ result # NoResult
     /\ IsPushData(data)
     /\ ~BodyIsOneKnownKey(data))
    => result.exc = "DecodeError"

---------------------------------------------------------------------------
(* Properties of GatewayMessage.encode *)

(* The message was constructed with version 1 or 2 and an encodable kind *)
Encodable(m) ==
    /\ m # None
    /\ m.version \in {PyInt(1), PyInt(2)}
    /\ m.id \in {PyInt(1), PyInt(3), PyInt(4)}

(* C4 as stated: decoding what encode produced returns a message with the  *)
(* version, token and identifier of the encoded message.                   *)
EncodeDecodeRoundTrip ==
    (Encodable(msg0) /\ result # NoResult)
    => /\ result.exc = "none"
       /\ result.val.version = msg0.version
       /\ result.val.token = msg0.token
       /\ result.val.id = msg0.id

(* C4 amended: the first four bytes encode produced are the version, the   *)
(* token in little-endian order (0 for a PULL_RESP of version 1) and the   *)
(* identifier of the message; decode refuses them with UnsupportedMethod.  *)
EncodedHeaderKeepsFields ==
    Encodable(msg0) =>
        /\ out.exc = "none" =>
              /\ Len(out.val.bytes) >= 4
              /\ out.val.bytes[1] = msg0.version.n
              /\ out.val.bytes[4] = msg0.id.n
              /\ out.val.bytes[2] + 256 * out.val.bytes[3] =
                    IF msg0.id = PyInt(3) /\ msg0.version = PyInt(1)
                    THEN 0 ELSE msg0.token.n
        /\ result # NoResult => result = [exc |-> "UnsupportedMethod"]

(* C4 happens: a PUSH_ACK with token 0x1234 was encoded, low byte first,   *)
(* and decode refused it                                                   *)
EncodedHeaderKeepsFieldsWitness ==
    /\ Encodable(msg0)
    /\ msg0.id = PyInt(1)
    /\ msg0.token = PyInt(4660)
    /\ out.exc = "none"
    /\ out.val.bytes = <<msg0.version.n, 52, 18, 1>>
    /\ result = [exc |-> "UnsupportedMethod"]

(* C8: the encoding of a PULL_RESP of version 1 is the four bytes version, *)
(* 0, 0, 3, whatever token the message was given, followed by the JSON     *)
(* text of its Txpk and no gateway identity.                               *)
PullRespV1TokenZero ==
    (/\ msg0 # None
     /\ msg0.id = PyInt(3)
     /\ msg0.version = PyInt(1)
     /\ out.exc = "none")
    => /\ out.val.bytes = <<1, 0, 0, 3>>
       /\ out.val.text = TxpkEncode(msg0.txpk)
       /\ out.val.text.v.keys = <<"txpk">>

(* C8 happens: a PULL_RESP of version 1 with token 0x1234 was encoded *)
PullRespV1TokenZeroWitness ==
    /\ msg0 # None
    /\ msg0.id = PyInt(3)
    /\ msg0.version = PyInt(1)
    /\ msg0.token = PyInt(4660)
    /\ out.exc = "none"
    /\ out.val.bytes = <<1, 0, 0, 3>>

(* C10: encode leaves every field of the message as it was constructed *)
EncodeLeavesMessage == msg = msg0

====
